---- MODULE Spec2Model ----
(***************************************************************************)
(* A model of PyFArc (src/farc.py): the FArc/FArC archive writer (repack), *)
(* the archive reader (unpack) and the gzip name injector                  *)
(* (write_gzip_name), at the level of bytes.                               *)
(*                                                                         *)
(* Bytes are the integers 0..255 and a buffer is a sequence of bytes.      *)
(* A character of a file name is represented by its cp932 code (one byte   *)
(* below 256, two bytes lead*256+trail otherwise), so that the two codecs  *)
(* the program uses really differ on non-ASCII characters.                 *)
(***************************************************************************)
EXTENDS Integers, Sequences, FiniteSets, TLC

\* ------------------------------------------------------------------ bounds

\* At most this many files in the folder that is repacked.
MaxFiles == 2

\* Alignment values 1..MaxAlign are tried.
MaxAlign == 3

\* ------------------------------------------------------------ byte helpers

RECURSIVE Sum(_)
Sum(s) == IF s = <<>> THEN 0 ELSE Head(s) + Sum(Tail(s))

RECURSIVE Flatten(_)
Flatten(ss) == IF ss = <<>> THEN <<>> ELSE Head(ss) \o Flatten(Tail(ss))

Zeros(n) == [k \in 1..n |-> 0]

\* s[from..] with a 0-based start, as Python's s[from:]
SliceFrom(s, from) == IF from >= Len(s) THEN <<>> ELSE SubSeq(s, from + 1, Len(s))

\* Python's s[lo:hi] for 0 <= lo: the slice is clipped to the buffer, never an error
PySlice(s, lo, hi) ==
    LET h == IF hi > Len(s) THEN Len(s) ELSE hi
    IN  IF lo >= h THEN <<>> ELSE SubSeq(s, lo + 1, h)

\* flags | 8
OrBit8(f) == IF (f \div 8) % 2 = 1 THEN f ELSE f + 8

HasBit(f, bit) == (f \div bit) % 2 = 1

\* struct.pack('>I', v) / struct.unpack('>I', ...)
U32BE(v) == << (v \div 16777216) % 256, (v \div 65536) % 256, (v \div 256) % 256, v % 256 >>

\* Values of 2^29 and more are all read as 2^29: far past the end of any buffer
\* of the model, and small enough that offset + size stays an integer here.
FromU32BE(b) ==
    IF b[1] >= 32 THEN 536870912
    ELSE ((b[1] * 256 + b[2]) * 256 + b[3]) * 256 + b[4]

U32LE(v) == << v % 256, (v \div 256) % 256, (v \div 65536) % 256, (v \div 16777216) % 256 >>

\* ------------------------------------------------------------------ codecs

\* ENCODING = 'cp932'
ENCODING == "cp932"

\* The encoding of a BinaryReader that is constructed without one
\* (BinaryReader(data), BinaryReader(endianness=Endian.BIG)): the library's
\* default, UTF-8.
DefaultEncoding == "utf-8"

\* The characters of the names below: 'a' (97) and HIRAGANA LETTER A, cp932
\* 82 A0 (33440 = 130 * 256 + 160).

Cp932Of(ch) == IF ch < 256 THEN <<ch>> ELSE << ch \div 256, ch % 256 >>

\* UTF-8 of the characters of NameChars (U+0061 and U+3042 = E3 81 82)
Utf8Of(ch) == IF ch < 128 THEN <<ch>> ELSE << 227, 129, 130 >>

\* str.encode(encoding)
Encode(enc, s) ==
    Flatten([k \in 1..Len(s) |-> IF enc = ENCODING THEN Cp932Of(s[k]) ELSE Utf8Of(s[k])])

IsLead(b) == (b >= 129 /\ b <= 159) \/ (b >= 224 /\ b <= 252)

IsTrail(b) == (b >= 64 /\ b <= 126) \/ (b >= 128 /\ b <= 252)

\* bytes.decode('cp932'): single bytes (ASCII, half-width katakana) and
\* lead/trail pairs; a lead byte without a valid trail byte is a decode error.
RECURSIVE DecodeCp932(_)
DecodeCp932(bs) ==
    IF bs = <<>> THEN [ok |-> TRUE, s |-> <<>>]
    ELSE LET b == Head(bs) IN
         IF b < 128 \/ (b >= 161 /\ b <= 223)
         THEN LET r == DecodeCp932(Tail(bs)) IN [ok |-> r.ok, s |-> <<b>> \o r.s]
         ELSE IF IsLead(b) /\ Len(bs) >= 2 /\ IsTrail(bs[2])
         THEN LET r == DecodeCp932(Tail(Tail(bs)))
              IN  [ok |-> r.ok, s |-> << b * 256 + bs[2] >> \o r.s]
         ELSE [ok |-> FALSE, s |-> <<>>]

\* bytes.decode('utf-8') on the byte sequences Utf8Of produces
RECURSIVE DecodeUtf8(_)
DecodeUtf8(bs) ==
    IF bs = <<>> THEN [ok |-> TRUE, s |-> <<>>]
    ELSE LET b == Head(bs) IN
         IF b < 128
         THEN LET r == DecodeUtf8(Tail(bs)) IN [ok |-> r.ok, s |-> <<b>> \o r.s]
         ELSE IF Len(bs) >= 3 /\ SubSeq(bs, 1, 3) = << 227, 129, 130 >>
         THEN LET r == DecodeUtf8(SubSeq(bs, 4, Len(bs)))
              IN  [ok |-> r.ok, s |-> << 33440 >> \o r.s]
         ELSE [ok |-> FALSE, s |-> <<>>]

Decode(enc, bs) == IF enc = ENCODING THEN DecodeCp932(bs) ELSE DecodeUtf8(bs)

\* ------------------------------------------------------------ the cursor
\* BinaryReader: a buffer, a position and a text encoding.

NewCursor(buffer, encoding) == [buf |-> buffer, pos |-> 0, enc |-> encoding]

\* seek(offset): absolute
Seek(c, offset) == [c EXCEPT !.pos = offset]

\* write of raw bytes at the position: overwrites in place, grows the buffer
\* past its end, and advances the position
WriteBytes(c, bs) ==
    [c EXCEPT !.buf = SubSeq(c.buf, 1, c.pos) \o bs \o SliceFrom(c.buf, c.pos + Len(bs)),
              !.pos = c.pos + Len(bs)]

WriteUint8(c, v) == WriteBytes(c, << v % 256 >>)

WriteUint32(c, v) == WriteBytes(c, U32BE(v))

\* write_str(s, null): encoded with the cursor's encoding
WriteStr(c, s, null) == WriteBytes(c, Encode(c.enc, s) \o (IF null THEN <<0>> ELSE <<>>))

\* extend(bytes): appended at the end, the position is left alone
Extend(c, bs) == [c EXCEPT !.buf = c.buf \o bs]

\* align(n): zero bytes appended until size() % n = 0; the position follows
\* the end when it was at the end
Align(c, n) ==
    LET pad == IF Len(c.buf) % n = 0 THEN 0 ELSE n - (Len(c.buf) % n)
    IN  [c EXCEPT !.buf = c.buf \o Zeros(pad),
                  !.pos = IF c.pos = Len(c.buf) THEN c.pos + pad ELSE c.pos]

CanRead(c, n) == c.pos + n <= Len(c.buf)

ReadUint8(c) == c.buf[c.pos + 1]

ReadUint32(c) == FromU32BE(SubSeq(c.buf, c.pos + 1, c.pos + 4))

Skip(c, n) == [c EXCEPT !.pos = c.pos + n]

\* the 0-based index of the first null byte at or after the position, or -1
RECURSIVE NullAt(_, _)
NullAt(buf, p) ==
    IF p >= Len(buf) THEN -1
    ELSE IF buf[p + 1] = 0 THEN p ELSE NullAt(buf, p + 1)

\* ---------------------------------------------------------------- gzip

\* CRC-32 of the data, abstracted to a checksum of its bytes
Crc32(data) == << Sum(data) % 256, (Sum(data) \div 256) % 256, 0, 0 >>

\* One final stored DEFLATE block: 01, LEN, NLEN, the bytes
Deflate(data) ==
    << 1, Len(data) % 256, Len(data) \div 256,
       255 - (Len(data) % 256), 255 - (Len(data) \div 256) >> \o data

\* gzip.compress(data): the fixed 10-byte header (no flags, no name), the
\* DEFLATE body, CRC-32 and ISIZE
GzipCompress(data) ==
    << 31, 139, 8, 0, 0, 0, 0, 0, 2, 255 >> \o Deflate(data) \o Crc32(data) \o U32LE(Len(data))

AllZero(s) == \A k \in 1..Len(s) : s[k] = 0

\* gzip.decompress(bs): header, optional FEXTRA / FNAME / FCOMMENT / FHCRC
\* fields, body, trailer; anything malformed is an error
GzipDecompress(bs) ==
    LET bad == [ok |-> FALSE, data |-> <<>>] IN
    IF ~(Len(bs) >= 10 /\ bs[1] = 31 /\ bs[2] = 139 /\ bs[3] = 8) THEN bad
    ELSE
    LET flags == bs[4]
        p0 == 10
        xok == ~HasBit(flags, 4) \/ p0 + 2 <= Len(bs)
        p1 == IF HasBit(flags, 4) /\ xok
              THEN p0 + 2 + bs[p0 + 1] + 256 * bs[p0 + 2] ELSE p0
        n1 == IF HasBit(flags, 8) THEN NullAt(bs, p1) ELSE p1 - 1
        p2 == n1 + 1
        n2 == IF HasBit(flags, 16) /\ n1 >= 0 THEN NullAt(bs, p2) ELSE p2 - 1
        p3 == n2 + 1
        p4 == IF HasBit(flags, 2) THEN p3 + 2 ELSE p3
    IN  IF ~xok \/ n1 < 0 \/ n2 < 0 \/ p4 + 5 > Len(bs) THEN bad
        ELSE
        LET len == bs[p4 + 2] + 256 * bs[p4 + 3]
            nlen == bs[p4 + 4] + 256 * bs[p4 + 5]
            data == PySlice(bs, p4 + 5, p4 + 5 + len)
            t == p4 + 5 + len
        IN  IF bs[p4 + 1] # 1 \/ len + nlen # 65535 \/ t + 8 > Len(bs) THEN bad
            ELSE IF SubSeq(bs, t + 1, t + 4) # Crc32(data)
                    \/ SubSeq(bs, t + 5, t + 8) # U32LE(len)
                    \/ ~AllZero(SliceFrom(bs, t + 8)) THEN bad
            ELSE [ok |-> TRUE, data |-> data]

\* write_gzip_name with the saved tail left out: the name overwrites the body
write_gzip_name_overwrite(name, data) ==
    LET br0 == NewCursor(data, DefaultEncoding)
        br1 == WriteUint8(Seek(br0, 3), OrBit8(ReadUint8(Seek(br0, 3))))
        br2 == WriteUint8(Seek(br1, 9), 3)
        br3 == WriteStr(br2, name, TRUE)
    IN  br3.buf

\* def write_gzip_name(name, data)
write_gzip_name(name, data) ==
    LET br0 == NewCursor(data, DefaultEncoding)
        \* Enable FNAME flag
        br1 == WriteUint8(Seek(br0, 3), OrBit8(ReadUint8(Seek(br0, 3))))
        \* Set operating system flag to Unix
        br2 == WriteUint8(Seek(br1, 9), 3)
        \* Write the file name
        buf == SliceFrom(br2.buf, br2.pos)
        br3 == WriteStr(br2, name, TRUE)
    IN  SubSeq(br3.buf, 1, br3.pos) \o buf


\* ------------------------------------------------------------- the state

VARIABLES
    files,            \* the folder's top-level files, in os.walk order: name, data
    use_compression,  \* -c
    align_value,      \* -a, at least 1
    rpc,              \* repack: "start", "loop", "done", "failed", "aborted", "off"
    farc,             \* repack: the header cursor
    data_br,          \* repack: the data cursor
    ridx,             \* repack: the next file of the entry loop
    header_size,      \* repack: header size, aligned
    org_header_size,  \* repack: header size before alignment
    table,            \* repack: what the entry loop wrote, per entry
    out_file,         \* the .farc path: absent, an older file, or an archive
    tampered,         \* the archive was damaged between repack and unpack
    upc,              \* unpack: "idle", "parse", "extract", "done", "failed", "aborted"
    ucur,             \* unpack: the cursor over the archive
    is_compressed,    \* unpack: magic = FArC
    u_header_size,    \* unpack: header size field + 8
    entries,          \* unpack: the parsed table
    uidx,             \* unpack: the next entry to extract
    out_dir,          \* the extraction folder: "absent", "old", "created"
    extracted,        \* the files written into the extraction folder, in order
    uerr,             \* unpack: the error it stopped with
    gz_pc,            \* the injector alone: "off", "ready", "done"
    gz_name,
    gz_data,
    gz_out

vars == << files, use_compression, align_value, rpc, farc, data_br, ridx, header_size,
           org_header_size, table, out_file, tampered, upc, ucur, is_compressed,
           u_header_size, entries, uidx, out_dir, extracted, uerr,
           gz_pc, gz_name, gz_data, gz_out >>

repackVars == << rpc, farc, data_br, ridx, header_size, org_header_size, table >>

unpackVars == << upc, ucur, is_compressed, u_header_size, entries, uidx, out_dir,
                 extracted, uerr >>

gzVars == << gz_pc, gz_name, gz_data, gz_out >>

inputVars == << files, use_compression, align_value >>

\* ------------------------------------------------------------- the inputs

\* File names: "a", "aa", and two names with a non-ASCII character
NameSet == { << 97 >>, << 97, 97 >>, << 33440 >>, << 97, 33440 >> }

\* File contents, the empty file included
DataSet == { << >>, << 65 >>, << 66, 0, 67 >> }

FileSet == [name : NameSet, data : DataSet]

\* A directory listing: no name twice
FileLists ==
    UNION { { fl \in [1..n -> FileSet] :
                \A i, j \in 1..n : i # j => fl[i].name # fl[j].name } : n \in 0..MaxFiles }

NoCursor == NewCursor(<< >>, DefaultEncoding)

Absent == [kind |-> "absent", bytes |-> << >>]

OldFile == [kind |-> "old", bytes |-> << >>]

InitRepack ==
    /\ rpc = "start"
    /\ farc = NoCursor
    /\ data_br = NoCursor
    /\ ridx = 0
    /\ header_size = 0
    /\ org_header_size = 0
    /\ table = << >>

InitUnpack ==
    /\ upc = "idle"
    /\ ucur = NoCursor
    /\ is_compressed = FALSE
    /\ u_header_size = 0
    /\ entries = << >>
    /\ uidx = 0
    /\ extracted = << >>
    /\ uerr = "none"

Init ==
    /\ files \in FileLists
    /\ use_compression \in BOOLEAN
    /\ align_value \in 1..MaxAlign
    /\ out_file \in {Absent, OldFile}
    /\ out_dir \in {"absent", "old"}
    /\ tampered = FALSE
    /\ InitRepack
    /\ InitUnpack
    /\ gz_pc = "off" /\ gz_name = << >> /\ gz_data = << >> /\ gz_out = << >>

\* --------------------------------------------------------------- repack

\* entry_size = 0xC if use_compression else 8
entry_size == IF use_compression THEN 12 ELSE 8

\* sum(map(lambda x: len(x[0].encode(ENCODING)) + 1 + entry_size, file_paths)) + 0xC
OrgHeaderSize ==
    Sum([k \in 1..Len(files) |-> Len(Encode(ENCODING, files[k].name)) + 1 + entry_size]) + 12

\* AlignUp without the rounding
AlignUpNone(n, a) == n

\* if header_size % align_value: header_size += align_value - (header_size % align_value)
AlignUp(n, a) == IF n % a # 0 THEN n + (a - (n % a)) ELSE n

\* "FArC" if use_compression else "FArc"
Magic(c) == IF c THEN << 70, 65, 114, 67 >> ELSE << 70, 65, 114, 99 >>

\* repack, up to the entry loop: the existing output is removed (or the user
\* declines and repack aborts), the header sizes are computed and the magic,
\* the header size field and the alignment are written
RepackStart ==
    /\ rpc = "start"
    /\ \E removed \in BOOLEAN :
         IF out_file.kind # "absent" /\ ~removed
         THEN /\ rpc' = "aborted"
              /\ UNCHANGED << farc, data_br, ridx, header_size, org_header_size, table,
                              out_file >>
         ELSE /\ out_file' = Absent
              /\ org_header_size' = OrgHeaderSize
              /\ header_size' = AlignUp(OrgHeaderSize, align_value)
              /\ farc' = WriteUint32(
                           WriteUint32(
                             WriteStr(NewCursor(<< >>, DefaultEncoding),
                                      Magic(use_compression), FALSE),
                             OrgHeaderSize - 8),
                           align_value)
              /\ data_br' = NewCursor(<< >>, DefaultEncoding)
              /\ ridx' = 1
              /\ table' = << >>
              /\ rpc' = "loop"
    /\ UNCHANGED << inputVars, tampered, unpackVars, gzVars >>

\* one iteration of the entry loop
RepackAddEntry ==
    /\ rpc = "loop"
    /\ ridx <= Len(files)
    /\ LET name == files[ridx].name
           data == files[ridx].data
           f1 == WriteStr(farc, name, TRUE)
           offset == header_size + Len(data_br.buf)
           f2 == WriteUint32(f1, offset)
           stored == IF use_compression
                     THEN write_gzip_name(name, GzipCompress(data)) ELSE data
           f3 == IF use_compression THEN WriteUint32(f2, Len(stored)) ELSE f2
           d1 == Align(Extend(data_br, stored), align_value)
           f4 == WriteUint32(f3, Len(data))
       IN  /\ farc' = f4
           /\ data_br' = d1
           /\ table' = Append(table, [name_written |-> f1.pos - farc.pos,
                                      offset |-> offset,
                                      stored_size |-> Len(stored),
                                      payload |-> stored])
    /\ ridx' = ridx + 1
    /\ UNCHANGED << rpc, header_size, org_header_size, out_file >>
    /\ UNCHANGED << inputVars, tampered, unpackVars, gzVars >>

\* RepackReadFail that leaves what was laid out so far at the output path
RepackReadFailPartial ==
    /\ rpc = "loop"
    /\ ridx <= Len(files)
    /\ farc' = WriteUint32(WriteStr(farc, files[ridx].name, TRUE),
                           header_size + Len(data_br.buf))
    /\ rpc' = "failed"
    /\ out_file' = [kind |-> "archive", bytes |-> farc.buf \o data_br.buf]
    /\ UNCHANGED << data_br, ridx, header_size, org_header_size, table >>
    /\ UNCHANGED << inputVars, tampered, unpackVars, gzVars >>

\* an iteration of the entry loop whose source file cannot be read: open()
\* raises after the name and the offset were written to the header cursor
RepackReadFail ==
    /\ rpc = "loop"
    /\ ridx <= Len(files)
    /\ farc' = WriteUint32(WriteStr(farc, files[ridx].name, TRUE),
                           header_size + Len(data_br.buf))
    /\ rpc' = "failed"
    /\ UNCHANGED << data_br, ridx, header_size, org_header_size, table, out_file >>
    /\ UNCHANGED << inputVars, tampered, unpackVars, gzVars >>

\* after the loop: the header is aligned, the data appended, the file written
RepackFinish ==
    /\ rpc = "loop"
    /\ ridx > Len(files)
    /\ LET f1 == Align(farc, align_value)
           f2 == Extend(f1, data_br.buf)
           f3 == Skip(f2, Len(data_br.buf))
       IN  /\ farc' = f3
           /\ out_file' = [kind |-> "archive", bytes |-> f3.buf]
    /\ rpc' = "done"
    /\ UNCHANGED << data_br, ridx, header_size, org_header_size, table >>
    /\ UNCHANGED << inputVars, tampered, unpackVars, gzVars >>


\* --------------------------------------------------------------- unpack

UFail(kind) ==
    /\ upc' = "failed"
    /\ uerr' = kind

\* read_str(size): size bytes, cut at the first null, decoded
ReadStrN(c, n) ==
    LET raw == SubSeq(c.buf, c.pos + 1, c.pos + n)
        z == NullAt(raw, 0)
    IN  Decode(c.enc, IF z < 0 THEN raw ELSE SubSeq(raw, 1, z))

\* unpack, up to the table: the existing output is removed (or the user
\* declines and unpack aborts), the output directory is created, the archive
\* is read, and the magic, the header size and the alignment are parsed
UnpackBegin ==
    /\ rpc = "done"
    /\ upc = "idle"
    /\ out_file.kind = "archive"
    /\ \E removed \in BOOLEAN :
         IF out_dir # "absent" /\ ~removed
         THEN /\ upc' = "aborted"
              /\ UNCHANGED << ucur, is_compressed, u_header_size, entries, uidx, out_dir,
                              extracted, uerr >>
         ELSE LET c0 == NewCursor(out_file.bytes, ENCODING)
                  magic == ReadStrN(c0, 4)
                  c1 == Skip(c0, 4)
                  c2 == Skip(c1, 8)
              IN  /\ out_dir' = "created"
                  /\ extracted' = << >>
                  /\ entries' = << >>
                  /\ uidx' = 0
                  /\ IF ~CanRead(c0, 4)
                     THEN /\ UFail("OutOfBounds")
                          /\ UNCHANGED << ucur, is_compressed, u_header_size >>
                     ELSE IF ~magic.ok
                     THEN /\ UFail("DecodeError")
                          /\ UNCHANGED << ucur, is_compressed, u_header_size >>
                     ELSE IF magic.s \notin {Magic(FALSE), Magic(TRUE)}
                     THEN /\ UFail("InvalidFormat")
                          /\ ucur' = c1
                          /\ UNCHANGED << is_compressed, u_header_size >>
                     ELSE IF ~CanRead(c1, 8)
                     THEN /\ UFail("OutOfBounds")
                          /\ is_compressed' = (magic.s = Magic(TRUE))
                          /\ ucur' = c1
                          /\ UNCHANGED u_header_size
                     ELSE /\ upc' = "parse"
                          /\ is_compressed' = (magic.s = Magic(TRUE))
                          /\ u_header_size' = ReadUint32(c1) + 8
                          /\ ucur' = c2
                          /\ UNCHANGED uerr
    /\ UNCHANGED << inputVars, repackVars, out_file, tampered, gzVars >>

\* one iteration of the table loop: name, offset, size and, if compressed,
\* the decompressed size
UnpackParseEntry ==
    /\ upc = "parse"
    /\ ucur.pos < u_header_size
    /\ LET z == NullAt(ucur.buf, ucur.pos)
           name == Decode(ucur.enc, PySlice(ucur.buf, ucur.pos, z))
           c1 == Seek(ucur, z + 1)
           c2 == Skip(c1, 8)
           c3 == IF is_compressed THEN Skip(c2, 4) ELSE c2
       IN  IF z < 0
           THEN UFail("MalformedData") /\ UNCHANGED << ucur, entries >>
           ELSE IF ~name.ok
           THEN UFail("DecodeError") /\ ucur' = c1 /\ UNCHANGED entries
           ELSE IF ~CanRead(c1, 8)
           THEN UFail("OutOfBounds") /\ ucur' = c1 /\ UNCHANGED entries
           ELSE IF is_compressed /\ ~CanRead(c2, 4)
           THEN /\ UFail("OutOfBounds")
                /\ ucur' = c2
                /\ entries' = Append(entries, [name |-> name.s,
                                               offset |-> ReadUint32(c1),
                                               size |-> ReadUint32(Skip(c1, 4))])
           ELSE /\ ucur' = c3
                /\ entries' = Append(entries, [name |-> name.s,
                                               offset |-> ReadUint32(c1),
                                               size |-> ReadUint32(Skip(c1, 4))])
                /\ UNCHANGED << upc, uerr >>
    /\ UNCHANGED << is_compressed, u_header_size, uidx, out_dir, extracted >>
    /\ UNCHANGED << inputVars, repackVars, out_file, tampered, gzVars >>

\* the table loop ends: buffer = farc.buffer()
UnpackTableDone ==
    /\ upc = "parse"
    /\ ucur.pos >= u_header_size
    /\ upc' = "extract"
    /\ uidx' = 1
    /\ UNCHANGED << ucur, is_compressed, u_header_size, entries, out_dir, extracted, uerr >>
    /\ UNCHANGED << inputVars, repackVars, out_file, tampered, gzVars >>

\* one iteration of the extraction loop: slice, decompress, write the file
UnpackExtract ==
    /\ upc = "extract"
    /\ uidx <= Len(entries)
    /\ LET e == entries[uidx]
           data == PySlice(ucur.buf, e.offset, e.offset + e.size)
           plain == GzipDecompress(data)
       IN  IF is_compressed /\ ~plain.ok
           THEN UFail("DecompressionError") /\ UNCHANGED << uidx, extracted >>
           ELSE /\ extracted' = Append(extracted,
                                       [name |-> e.name,
                                        data |-> IF is_compressed THEN plain.data ELSE data])
                /\ uidx' = uidx + 1
                /\ UNCHANGED << upc, uerr >>
    /\ UNCHANGED << ucur, is_compressed, u_header_size, entries, out_dir >>
    /\ UNCHANGED << inputVars, repackVars, out_file, tampered, gzVars >>

\* every entry was written
UnpackFinish ==
    /\ upc = "extract"
    /\ uidx > Len(entries)
    /\ upc' = "done"
    /\ UNCHANGED << ucur, is_compressed, u_header_size, entries, uidx, out_dir, extracted,
                    uerr >>
    /\ UNCHANGED << inputVars, repackVars, out_file, tampered, gzVars >>

\* ------------------------------------------------- a damaged input archive

\* At most this many bytes are cut off the end of the archive.
MaxCut == 2

\* The archive unpack is given need not be one repack wrote: its tail is cut,
\* its magic is changed, or its header size field points past its end.
Tamper ==
    /\ rpc = "done"
    /\ upc = "idle"
    /\ out_file.kind = "archive"
    /\ ~tampered
    /\ tampered' = TRUE
    /\ LET b == out_file.bytes IN
       \/ \E cut \in 1..MaxCut :
            out_file' = [out_file EXCEPT !.bytes = SubSeq(b, 1, Len(b) - cut)]
       \/ out_file' = [out_file EXCEPT !.bytes = << 88 >> \o Tail(b)]
       \/ out_file' = [out_file EXCEPT !.bytes =
                         SubSeq(b, 1, 4) \o U32BE(Len(b)) \o SliceFrom(b, 8)]
    /\ UNCHANGED << inputVars, repackVars, unpackVars, gzVars >>

\* ------------------------------------------------- the injector alone

\* The first ten bytes of a gzip stream, with the flags and the OS byte given
GzHeader(flags, os) == << 31, 139, 8, flags, 1, 2, 3, 4, 2, os >>

\* What follows the fixed header: up to this many bytes.
MaxBody == 3

GzBodies == UNION { [1..n -> {0, 7, 200}] : n \in 0..MaxBody }

InitGz ==
    /\ files = << >> /\ use_compression = FALSE /\ align_value = 1
    /\ out_file = Absent /\ out_dir = "absent" /\ tampered = FALSE
    /\ InitUnpack
    /\ rpc = "off" /\ farc = NoCursor /\ data_br = NoCursor /\ ridx = 0
    /\ header_size = 0 /\ org_header_size = 0 /\ table = << >>
    /\ gz_pc = "ready"
    /\ gz_name \in NameSet
    /\ \E flags \in {0, 1, 8, 9, 16}, os \in {0, 3, 255}, body \in GzBodies :
         gz_data = GzHeader(flags, os) \o body
    /\ gz_out = << >>

GzInject ==
    /\ gz_pc = "ready"
    /\ gz_out' = write_gzip_name(gz_name, gz_data)
    /\ gz_pc' = "done"
    /\ UNCHANGED << gz_name, gz_data >>
    /\ UNCHANGED << inputVars, repackVars, unpackVars, out_file, tampered >>

\* ------------------------------------------------------ specifications

Next ==
    \/ RepackStart
    \/ RepackAddEntry
    \/ RepackReadFail
    \/ RepackFinish
    \/ UnpackBegin
    \/ UnpackParseEntry
    \/ UnpackTableDone
    \/ UnpackExtract
    \/ UnpackFinish

\* repack of a folder, then unpack of the archive it wrote
Spec == Init /\ [][Next]_vars

NextT == Next \/ Tamper

\* the same, with the archive possibly damaged before it is unpacked
SpecT == Init /\ [][NextT]_vars

NextGz == GzInject

\* write_gzip_name on any ten-byte header, body and name
SpecGz == InitGz /\ [][NextGz]_vars


\* ------------------------------------------------------------- the claims

\* the header size field of the header cursor (bytes 4..7)
HeaderSizeField == FromU32BE(SubSeq(farc.buf, 5, 8))

\* the length of the header part of the finished output
PaddedHeaderLen == Len(farc.buf) - Len(data_br.buf)

StoredSizes == [k \in 1..Len(table) |-> table[k].stored_size]

\* C1: unpacking the archive repack wrote always succeeds and yields exactly
\* the files that were packed: as many, with the same names and contents, in
\* the same order.
C1_RoundTrip ==
    (rpc = "done" /\ upc \in {"done", "failed"})
        => (upc = "done" /\ extracted = files)

\* C2: in the finished output, the bytes at [offset, offset + stored size) of
\* every entry are that entry's stored payload.
C2_OffsetCorrect ==
    rpc = "done" =>
        \A i \in 1..Len(table) :
            PySlice(farc.buf, table[i].offset, table[i].offset + table[i].stored_size)
                = table[i].payload

\* C3: when unpack stops with an error, no output directory was created, no
\* existing output was removed and no entry was written.
C3_AllOrNothing ==
    upc = "failed" => (out_dir # "created" /\ extracted = << >>)

\* C4: the header size field plus 8 is where the entry table ends, which is
\* where the reader stops after one record per file; the padded header is a
\* multiple of the alignment long and as long as header_size.
C4_HeaderSizeField ==
    /\ (rpc = "loop" /\ ridx > Len(files)) => HeaderSizeField + 8 = Len(farc.buf)
    /\ rpc = "done" =>
          (PaddedHeaderLen % align_value = 0 /\ PaddedHeaderLen = header_size)
    /\ upc \in {"extract", "done"} =>
          (ucur.pos = u_header_size /\ Len(entries) = Len(files))

C6_BoundsChecked ==
    /\ \A i \in 1..Len(extracted) :
          entries[i].offset + entries[i].size <= Len(ucur.buf)
    /\ upc \in {"extract", "done"} => u_header_size <= Len(ucur.buf)

\* C7: the bytes written for a name into the entry table are as many as the
\* header size computation counted for it with the fixed codepage.
C7_SingleCodec ==
    \A i \in 1..Len(table) :
        table[i].name_written = Len(Encode(ENCODING, files[i].name)) + 1

C9_NoPartialArchive ==
    /\ rpc \in {"start", "loop", "failed", "aborted"} => out_file.kind # "archive"
    /\ out_file.kind = "archive" =>
          (rpc = "done" /\ Len(table) = Len(files) /\ out_file.bytes = farc.buf)

\* the second of two files could not be read, after the first was laid out
C9_Witness ==
    /\ rpc = "failed"
    /\ Len(files) = 2
    /\ Len(table) = 1
    /\ Len(data_br.buf) > 0
    /\ out_file.kind = "absent"

\* C10: with alignment 1 the output is as long as the unpadded header size
\* (12 plus, per entry, the encoded name, 1 and the 8 or 12 bytes of its
\* record) plus the stored sizes, and every payload starts where the one
\* before it ends; with no files the header size field is 4 and the output
\* is the 12 header bytes.
C10_BoundaryLayout ==
    /\ (rpc = "done" /\ align_value = 1) =>
          /\ Len(farc.buf) =
                12 + Sum([k \in 1..Len(files) |->
                            Len(Encode(ENCODING, files[k].name)) + 1 + entry_size])
                   + Sum(StoredSizes)
          /\ \A i \in 1..(Len(table) - 1) :
                table[i + 1].offset = table[i].offset + table[i].stored_size
    /\ (rpc = "done" /\ files = << >>) =>
          (HeaderSizeField = 4 /\ Len(farc.buf) = 12 /\ table = << >>)

====
